---- MODULE Spec2Model ----
(***************************************************************************)
(* The adaptive RAG workflow of src/src/adaptive_rag.py: the LangGraph     *)
(* state graph built by AdaptiveRAG._build_graph, its five node functions, *)
(* its three branch predicates and the two entry points query and          *)
(* query_simple.  The router, the retriever, the web searcher, the         *)
(* generator and the three graders are oracles: each call draws its answer *)
(* from a small set.                                                       *)
(***************************************************************************)
EXTENDS Integers, Sequences, FiniteSets, TLC

\* ------------------------------------------------------------------ bounds
\* Longest passage list the retriever oracle returns (Config.RETRIEVAL_K is 4).
MaxDocs == 2
\* The execution counters of the nodes saturate at this value.
MaxCount == 5

\* --------------------------------------------------------------- oracles
\* A question is the sequence of its parts, so that wrapping is visible.
Questions == {<<"q1">>, <<"q2">>}
Passages == {"p1", "p2"}
WebResults == {"w1"}
WebFailed == "Web search failed"
Generations == {"a1", "a2"}
\* binary_score is a free str field: a grader may answer outside yes/no.
Verdicts == {"yes", "no", "unsure"}
\* RouteQuery.datasource values, and one answer outside the Literal.
Sources == {"vectorstore", "web_search", "other"}
\* The entry points of AdaptiveRAG: query (app.stream) and query_simple
\* (app.invoke).
Modes == {"query", "query_simple"}
\* SimpleEvaluator.evaluate_response, which calls app.invoke on the same app.
EvaluatorModes == {"evaluate"}
NodeNames == {"web_search", "retrieve", "grade_documents", "generate", "transform_query"}
NotCalled == "not called"
\* The default of value.get("generation", ...) / result.get("generation", ...)
NoAnswer == "No answer generated"

VARIABLES
    state,          \* the GraphState dict of the running execution
    pc,             \* what the graph runs next: a node, a branch predicate, END
    GROQ_API_KEY,   \* Config.GROQ_API_KEY is set
    TAVILY_API_KEY, \* Config.TAVILY_API_KEY is set
    vectorstore,    \* GroqDocumentRetriever.vectorstore is not None
    retriever,      \* GroqDocumentRetriever.retriever is not None
    mode,           \* the entry point that started the execution
    error,          \* the exception the last call raised, or "none"
    input_question, \* history: the caller's question
    executed,       \* history: how often each node has run (saturating)
    grade_in,       \* history: documents read by the last grade_documents
    grade_scores,   \* history: relevance verdicts of the last grade_documents
    graded,         \* history: the last evaluation of the generate branch
    routed,         \* history: the router's answer inside the graph, or "none"
    tool_failed,    \* history: the web search tool raised inside WebSearcher.search
    not_grounded,   \* history: evaluations with a score other than "yes" (saturating)
    key,            \* query: the node of the last streamed output, or "none"
    value,          \* query: the dict of the last streamed output
    result,         \* what the entry point returned, or "none"
    other,          \* a second execution on the same instance, through query_simple
    on_disk         \* index files exist at GroqDocumentRetriever.vectorstore_path

vars == <<state, pc, GROQ_API_KEY, TAVILY_API_KEY, vectorstore, retriever, mode,
          error, input_question, executed, grade_in, grade_scores, graded,
          routed, tool_failed, not_grounded, key, value, result, other, on_disk>>

\* ------------------------------------------------------------ dict helpers
\* dict.get(key, default)
Get(d, name, default) == IF name \in DOMAIN d THEN d[name] ELSE default

\* LangGraph writes every key a node returns over the state's value.
Merge(d, upd) ==
    [k \in (DOMAIN d) \cup (DOMAIN upd) |-> IF k \in DOMAIN upd THEN upd[k] ELSE d[k]]

EmptyState == [k \in {} |-> 0]

SeqsUpTo(S, n) == UNION {[1..m -> S] : m \in 0..n}

Bump(name) == [executed EXCEPT ![name] = IF @ < MaxCount THEN @ + 1 ELSE @]

\* f"Please provide more details about: {question}"
Wrap(question) == <<"Please provide more details about:">> \o question

\* The shape of the variables: GraphState's keys, each set or absent, and the
\* objects around the graph.
TypeOK ==
    /\ DOMAIN state \subseteq {"question", "generation", "documents", "retry_count"}
    /\ "question" \in DOMAIN state => state["question"] \in Seq(STRING)
    /\ "generation" \in DOMAIN state => state["generation"] \in Generations
    /\ "documents" \in DOMAIN state
         => state["documents"] \in Seq(Passages \cup WebResults \cup {WebFailed})
    /\ "retry_count" \in DOMAIN state => state["retry_count"] \in Nat
    /\ pc \in NodeNames \cup {"idle", "route_question", "decide_to_generate",
                             "grade_generation", "END", "error"}
    /\ GROQ_API_KEY \in BOOLEAN /\ TAVILY_API_KEY \in BOOLEAN
    /\ vectorstore \in BOOLEAN /\ retriever \in BOOLEAN
    /\ mode \in Modes \cup EvaluatorModes \cup {"none"}
    /\ error \in {"none", "ValueError", "KeyError", "FileNotFoundError", "Exception"}
    /\ on_disk \in BOOLEAN
    /\ executed \in [NodeNames -> 0..MaxCount]
    /\ routed \in Sources \cup {"none"}
    /\ tool_failed \in BOOLEAN
    /\ not_grounded \in 0..MaxCount
    /\ key \in NodeNames \cup {"none"}
    /\ result \in Generations \cup {NoAnswer, "", "none"}

\* ------------------------------------------------------------------- Init
Init ==
    /\ state = EmptyState
    /\ pc = "idle"
    /\ GROQ_API_KEY \in BOOLEAN
    /\ TAVILY_API_KEY \in BOOLEAN
    /\ vectorstore = FALSE
    /\ retriever = FALSE
    /\ mode = "none"
    /\ error = "none"
    /\ input_question = <<>>
    /\ executed = [n \in NodeNames |-> 0]
    /\ grade_in = <<>>
    /\ grade_scores = <<>>
    /\ graded = [score |-> NotCalled, answer |-> NotCalled, retry_count |-> 0,
                 outcome |-> "none"]
    /\ routed = "none"
    /\ tool_failed = FALSE
    /\ not_grounded = 0
    /\ key = "none"
    /\ value = EmptyState
    /\ result = "none"
    /\ other = [state |-> EmptyState, pc |-> "idle", input_question |-> <<>>,
                transforms |-> 0, result |-> "none"]
    /\ on_disk \in BOOLEAN

\* ----------------------------------------------------- retriever lifecycle
\* The GroqDocumentRetriever object with the files at its vectorstore_path.
index == [vectorstore |-> vectorstore, retriever |-> retriever, on_disk |-> on_disk]

\* GroqDocumentRetriever.create_vectorstore: FAISS.from_documents may raise;
\* nothing is assigned then.
create_vectorstore(r, ok) ==
    IF ok THEN [r EXCEPT !.vectorstore = TRUE, !.retriever = TRUE] ELSE r

\* FAISS.load_local succeeds: the files exist and can be read.
load_local(r, ok) == ok /\ r.on_disk

\* GroqDocumentRetriever.load_vectorstore: a failed FAISS.load_local raises
\* before either attribute is assigned.
load_vectorstore(r, ok) ==
    IF load_local(r, ok) THEN [r EXCEPT !.vectorstore = TRUE, !.retriever = TRUE] ELSE r

\* Mutant of save_vectorstore: save_local is called whatever self.vectorstore is.
save_vectorstore_always(r) == [r EXCEPT !.on_disk = TRUE]

\* GroqDocumentRetriever.save_vectorstore: save_local under "if self.vectorstore".
save_vectorstore(r) ==
    IF r.vectorstore THEN [r EXCEPT !.on_disk = TRUE] ELSE r

\* The retriever object and its files after a call.
SetIndex(r) ==
    /\ vectorstore' = r.vectorstore
    /\ retriever' = r.retriever
    /\ on_disk' = r.on_disk

\* AdaptiveRAG.setup_vectorstore: create_vectorstore, then save_vectorstore
\* unless create_vectorstore raised.
SetupVectorstore(ok) ==
    /\ pc = "idle"
    /\ SetIndex(IF ok THEN save_vectorstore(create_vectorstore(index, ok))
                ELSE create_vectorstore(index, ok))
    /\ error' = IF ok THEN "none" ELSE "Exception"
    /\ UNCHANGED <<other, state, pc, GROQ_API_KEY, TAVILY_API_KEY, mode,
                   input_question, executed, grade_in, grade_scores, graded,
                   routed, tool_failed, not_grounded, key, value, result>>

\* AdaptiveRAG.load_vectorstore: the FileNotFoundError of a failed load goes
\* to the caller.
LoadVectorstore(ok) ==
    /\ pc = "idle"
    /\ SetIndex(load_vectorstore(index, ok))
    /\ error' = IF load_local(index, ok) THEN "none" ELSE "FileNotFoundError"
    /\ UNCHANGED <<other, state, pc, GROQ_API_KEY, TAVILY_API_KEY, mode,
                   input_question, executed, grade_in, grade_scores, graded,
                   routed, tool_failed, not_grounded, key, value, result>>

\* ------------------------------------------------------------ entry points
\* Config.validate: True, or the ValueError it raises.
validate ==
    IF ~GROQ_API_KEY THEN "ValueError"
    ELSE IF ~TAVILY_API_KEY THEN "ValueError"
    ELSE "ok"

\* The inputs dict of query (retry_count 0) and of query_simple (no retry_count).
inputs(question, m) ==
    IF m = "query" THEN [question |-> question, retry_count |-> 0]
    ELSE [question |-> question]

\* What the entry point checks before it runs the graph: query and
\* query_simple call Config.validate; evaluate_response calls app.invoke with
\* no check before it.
gate(m) == IF m = "evaluate" THEN "ok" ELSE validate

\* What the entry point returns once the graph is at END: query reads the last
\* streamed dict, query_simple and evaluate_response the final state.
query_result(m, last_value, final_state) ==
    IF m = "query" THEN Get(last_value, "generation", NoAnswer)
    ELSE IF m = "query_simple" THEN Get(final_state, "generation", NoAnswer)
    ELSE Get(final_state, "generation", "")

\* app.stream yields one {node: update} dict per node run, which the loop of
\* query binds to key and value; app.invoke yields nothing on the way.
Emit(node, update) ==
    IF mode = "query"
      THEN /\ key' = node
           /\ value' = update
      ELSE UNCHANGED <<key, value>>

Query(question, m) ==
    /\ pc = "idle"
    /\ mode' = m
    /\ input_question' = question
    /\ IF gate(m) = "ok"
         THEN /\ state' = Merge(EmptyState, inputs(question, m))
              /\ pc' = "route_question"
              /\ error' = "none"
         ELSE /\ state' = state
              /\ pc' = "error"
              /\ error' = gate(m)
    /\ UNCHANGED <<other, on_disk, GROQ_API_KEY, TAVILY_API_KEY, vectorstore, retriever, executed,
                   grade_in, grade_scores, graded,
                   routed, tool_failed, not_grounded, key, value, result>>

\* ---------------------------------------------------------- node functions
\* AdaptiveRAG._retrieve: the dict it returns, given the retriever's answer.
retrieve(st, documents) ==
    [documents |-> documents, question |-> st["question"]]

\* Mutant of grade_loop: a relevant passage is put in front of filtered_docs.
RECURSIVE grade_loop_insert(_, _, _, _)
grade_loop_insert(documents, scores, i, filtered_docs) ==
    IF i > Len(documents) THEN filtered_docs
    ELSE grade_loop_insert(documents, scores, i + 1,
                           IF scores[i] = "yes"
                             THEN <<documents[i]>> \o filtered_docs
                             ELSE filtered_docs)

\* The loop of AdaptiveRAG._grade_documents from passage i on: a passage is
\* appended to filtered_docs when its score is "yes".
RECURSIVE grade_loop(_, _, _, _)
grade_loop(documents, scores, i, filtered_docs) ==
    IF i > Len(documents) THEN filtered_docs
    ELSE grade_loop(documents, scores, i + 1,
                    IF scores[i] = "yes"
                      THEN Append(filtered_docs, documents[i])
                      ELSE filtered_docs)

\* AdaptiveRAG._grade_documents, scores[i] being the grader's answer for passage i.
grade_documents(st, scores) ==
    [documents |-> grade_loop(st["documents"], scores, 1, <<>>),
     question |-> st["question"]]

\* Mutant of _generate: the dict returned carries an empty documents list.
generate_clears(st, generation) ==
    [documents |-> <<>>, question |-> st["question"], generation |-> generation]

\* Mutant of _generate: the dict returned leaves the generation out.
generate_forgets(st, generation) ==
    [documents |-> st["documents"], question |-> st["question"]]

\* AdaptiveRAG._generate, generation being the chain's answer.
generate(st, generation) ==
    [documents |-> st["documents"], question |-> st["question"],
     generation |-> generation]

\* Mutant of WebSearcher.search: the except branch returns an empty passage.
search_drops_failure(ok, web_results) == IF ok THEN web_results ELSE ""

\* WebSearcher.search: the joined results, or the placeholder of the except branch.
search(ok, web_results) == IF ok THEN web_results ELSE WebFailed

\* AdaptiveRAG._web_search
web_search(st, doc) ==
    [documents |-> <<doc>>, question |-> st["question"]]

\* Mutant of transform_query: a missing retry_count is read as 1.
transform_query_default_one(st) ==
    [question |-> st["question"],
     documents |-> Get(st, "documents", <<>>),
     retry_count |-> Get(st, "retry_count", 1) + 1]

\* Mutant of transform_query: the counter is kept on the instance, not in the state.
transform_query_on_instance(st) ==
    [question |-> st["question"],
     documents |-> Get(st, "documents", <<>>),
     retry_count |-> executed["transform_query"] + 1]

\* Mutant of transform_query: the counter is bumped twice.
transform_query_twice(st) ==
    [question |-> st["question"],
     documents |-> Get(st, "documents", <<>>),
     retry_count |-> Get(st, "retry_count", 0) + 2]

\* Mutant of transform_query: the dict returned carries transformed_question.
transform_query_rewrites(st) ==
    [question |-> Wrap(st["question"]),
     documents |-> Get(st, "documents", <<>>),
     retry_count |-> Get(st, "retry_count", 0) + 1]

\* AdaptiveRAG._transform_query: transformed_question is computed and the
\* dict returned carries the question read from the state.
transform_query(st) ==
    LET question == st["question"]
        retry_count == Get(st, "retry_count", 0) + 1
        transformed_question == Wrap(question)
    IN  [question |-> question,
         documents |-> Get(st, "documents", <<>>),
         retry_count |-> retry_count]

\* -------------------------------------------------------- branch predicates
\* Mutant of _route_question: any other source falls back to the vectorstore.
route_question_fallback(source) ==
    IF source = "web_search" THEN "web_search" ELSE "vectorstore"

\* AdaptiveRAG._route_question: falls off the if/elif (None) on any other source.
route_question(source) ==
    IF source = "web_search" THEN "web_search"
    ELSE IF source = "vectorstore" THEN "vectorstore"
    ELSE "None"

\* Mutant of _decide_to_generate: it tests for a missing list, not an empty one.
decide_to_generate_missing(st) ==
    IF "documents" \notin DOMAIN st THEN "transform_query" ELSE "generate"

\* Mutant of _decide_to_generate: the two decisions are swapped.
decide_to_generate_swapped(st) ==
    IF st["documents"] = <<>> THEN "generate" ELSE "transform_query"

\* AdaptiveRAG._decide_to_generate
decide_to_generate(st) ==
    IF st["documents"] = <<>> THEN "transform_query" ELSE "generate"

\* Mutant of the generate branch: the answer grader is called on every evaluation.
answer_grader_called_always(score) == TRUE

\* The answer grader is called inside the branch of a "yes" hallucination score.
answer_grader_called(score) == score = "yes"

\* Mutant of the generate branch: the ceiling is reached one retry early.
grade_generation_early_ceiling(st, score, answer_score) ==
    IF score = "yes"
      THEN IF answer_score = "yes" THEN "useful"
           ELSE IF Get(st, "retry_count", 0) >= 2 THEN "useful"
           ELSE "not useful"
      ELSE "not supported"

\* Mutant of the generate branch: the ceiling is tested with > instead of >=.
grade_generation_late_ceiling(st, score, answer_score) ==
    IF score = "yes"
      THEN IF answer_score = "yes" THEN "useful"
           ELSE IF Get(st, "retry_count", 0) > 3 THEN "useful"
           ELSE "not useful"
      ELSE "not supported"

\* Mutant of the generate branch: the ceiling also ends the not-grounded loop.
grade_generation_ceiling_first(st, score, answer_score) ==
    IF Get(st, "retry_count", 0) >= 3 THEN "useful"
    ELSE IF score = "yes"
      THEN IF answer_score = "yes" THEN "useful" ELSE "not useful"
      ELSE "not supported"

\* AdaptiveRAG._grade_generation_v_documents_and_question
grade_generation_v_documents_and_question(st, score, answer_score) ==
    LET retry_count == Get(st, "retry_count", 0)
    IN  IF score = "yes"
          THEN IF answer_score = "yes" THEN "useful"
               ELSE IF retry_count >= 3 THEN "useful"
               ELSE "not useful"
          ELSE "not supported"

\* ------------------------------------------------- edges of _build_graph
\* Mutant of the START path map: web_search is wired straight to generate.
StartEdges_skip_search(label) ==
    IF label = "web_search" THEN "generate"
    ELSE IF label = "vectorstore" THEN "retrieve"
    ELSE "error"

\* The path map of the conditional edges from START; a label it lacks ends
\* the execution with an error.
StartEdges(label) ==
    IF label = "web_search" THEN "web_search"
    ELSE IF label = "vectorstore" THEN "retrieve"
    ELSE "error"

\* add_edge("web_search", "generate")
WebSearchEdge == "generate"
\* add_edge("retrieve", "grade_documents")
RetrieveEdge == "grade_documents"
\* Mutant of the transform_query edge: the rewritten query is retrieved again.
TransformQueryEdge_retrieve == "retrieve"
\* add_edge("transform_query", "generate")
TransformQueryEdge == "generate"

\* Mutant of the grade_documents path map: no evidence ends the execution.
GradeDocumentsEdges_ends(label) ==
    IF label = "transform_query" THEN "END" ELSE "generate"

\* The path map of the conditional edges from grade_documents.
GradeDocumentsEdges(label) ==
    IF label = "transform_query" THEN "transform_query" ELSE "generate"

\* Mutant of the generate path map: "not useful" goes back to generate.
GenerateEdges_regenerates(label) ==
    IF label = "useful" THEN "END" ELSE "generate"

\* Mutant of the generate path map: "not useful" ends the execution.
GenerateEdges_gives_up(label) ==
    IF label = "not supported" THEN "generate" ELSE "END"

\* The path map of the conditional edges from generate.
GenerateEdges(label) ==
    IF label = "not supported" THEN "generate"
    ELSE IF label = "useful" THEN "END"
    ELSE "transform_query"

\* ------------------------------------------------------------ graph steps
\* The conditional edge from START: _route_question, then its path map.
RouteQuestion(source) ==
    /\ pc = "route_question"
    /\ pc' = StartEdges(route_question(source))
    /\ routed' = source
    /\ error' = IF StartEdges(route_question(source)) = "error" THEN "KeyError" ELSE error
    /\ UNCHANGED <<other, on_disk, state, GROQ_API_KEY, TAVILY_API_KEY, vectorstore, retriever, mode,
                   input_question, executed, grade_in, grade_scores, graded,
                   tool_failed, not_grounded, key, value, result>>

\* Mutant of the node retrieve: a missing index yields no passages instead of
\* the ValueError.
Retrieve_swallows(documents) ==
    /\ pc = "retrieve"
    /\ state' = Merge(state, retrieve(state, IF retriever THEN documents ELSE <<>>))
    /\ pc' = RetrieveEdge
    /\ executed' = Bump("retrieve")
    /\ Emit("retrieve", retrieve(state, IF retriever THEN documents ELSE <<>>))
    /\ UNCHANGED <<other, on_disk, GROQ_API_KEY, TAVILY_API_KEY, vectorstore, retriever, mode, error,
                   input_question, grade_in, grade_scores, graded,
                   routed, tool_failed, not_grounded, result>>

\* The node retrieve.  GroqDocumentRetriever.retrieve raises ValueError while
\* self.retriever is None; the node then writes nothing and the execution ends.
Retrieve(documents) ==
    /\ pc = "retrieve"
    /\ IF retriever
         THEN /\ state' = Merge(state, retrieve(state, documents))
              /\ pc' = RetrieveEdge
              /\ executed' = Bump("retrieve")
              /\ error' = error
              /\ Emit("retrieve", retrieve(state, documents))
         ELSE /\ pc' = "error"
              /\ error' = "ValueError"
              /\ UNCHANGED <<state, executed, key, value>>
    /\ UNCHANGED <<other, on_disk, GROQ_API_KEY, TAVILY_API_KEY, vectorstore, retriever, mode,
                   input_question, grade_in, grade_scores, graded,
                   routed, tool_failed, not_grounded, result>>

\* The node web_search.
WebSearch(ok, web_results) ==
    /\ pc = "web_search"
    /\ state' = Merge(state, web_search(state, search(ok, web_results)))
    /\ pc' = WebSearchEdge
    /\ executed' = Bump("web_search")
    /\ tool_failed' = ~ok
    /\ Emit("web_search", web_search(state, search(ok, web_results)))
    /\ UNCHANGED <<other, on_disk, GROQ_API_KEY, TAVILY_API_KEY, vectorstore, retriever, mode, error,
                   input_question, grade_in, grade_scores, graded,
                   routed, not_grounded, result>>

\* The node grade_documents.
GradeDocuments(scores) ==
    /\ pc = "grade_documents"
    /\ state' = Merge(state, grade_documents(state, scores))
    /\ pc' = "decide_to_generate"
    /\ executed' = Bump("grade_documents")
    /\ grade_in' = state["documents"]
    /\ grade_scores' = scores
    /\ Emit("grade_documents", grade_documents(state, scores))
    /\ UNCHANGED <<other, on_disk, GROQ_API_KEY, TAVILY_API_KEY, vectorstore, retriever, mode, error,
                   input_question, graded,
                   routed, tool_failed, not_grounded, result>>

\* The conditional edge from grade_documents.
DecideToGenerate ==
    /\ pc = "decide_to_generate"
    /\ pc' = GradeDocumentsEdges(decide_to_generate(state))
    /\ UNCHANGED <<other, on_disk, state, GROQ_API_KEY, TAVILY_API_KEY, vectorstore, retriever, mode,
                   error, input_question, executed, grade_in, grade_scores, graded,
                   routed, tool_failed, not_grounded, key, value, result>>

\* Mutant of the node generate: transform_query runs in the same step, as if
\* both were successors of one node.
Generate_fans_out(generation) ==
    /\ pc = "generate"
    /\ state' = Merge(Merge(state, generate(state, generation)), transform_query(state))
    /\ pc' = "grade_generation"
    /\ executed' = [executed EXCEPT !["generate"] = IF @ < MaxCount THEN @ + 1 ELSE @,
                                    !["transform_query"] = IF @ < MaxCount THEN @ + 1 ELSE @]
    /\ Emit("generate", generate(state, generation))
    /\ UNCHANGED <<other, on_disk, GROQ_API_KEY, TAVILY_API_KEY, vectorstore, retriever, mode, error,
                   input_question, grade_in, grade_scores, graded,
                   routed, tool_failed, not_grounded, result>>

\* The node generate.
Generate(generation) ==
    /\ pc = "generate"
    /\ state' = Merge(state, generate(state, generation))
    /\ pc' = "grade_generation"
    /\ executed' = Bump("generate")
    /\ Emit("generate", generate(state, generation))
    /\ UNCHANGED <<other, on_disk, GROQ_API_KEY, TAVILY_API_KEY, vectorstore, retriever, mode, error,
                   input_question, grade_in, grade_scores, graded,
                   routed, tool_failed, not_grounded, result>>

\* The conditional edge from generate.
GradeGeneration(score, answer_score) ==
    /\ pc = "grade_generation"
    /\ pc' = GenerateEdges(
                grade_generation_v_documents_and_question(state, score, answer_score))
    /\ graded' = [score |-> score,
                  answer |-> IF answer_grader_called(score) THEN answer_score
                             ELSE NotCalled,
                  retry_count |-> Get(state, "retry_count", 0),
                  outcome |-> grade_generation_v_documents_and_question(
                                  state, score, answer_score)]
    /\ not_grounded' = IF score # "yes" /\ not_grounded < MaxCount
                         THEN not_grounded + 1 ELSE not_grounded
    /\ result' = IF GenerateEdges(grade_generation_v_documents_and_question(
                                      state, score, answer_score)) = "END"
                   THEN query_result(mode, value, state)
                   ELSE result
    /\ UNCHANGED <<other, on_disk, state, GROQ_API_KEY, TAVILY_API_KEY, vectorstore, retriever, mode,
                   error, input_question, executed, grade_in, grade_scores,
                   routed, tool_failed, key, value>>

\* The node transform_query.
TransformQuery ==
    /\ pc = "transform_query"
    /\ state' = Merge(state, transform_query(state))
    /\ pc' = TransformQueryEdge
    /\ executed' = Bump("transform_query")
    /\ Emit("transform_query", transform_query(state))
    /\ UNCHANGED <<other, on_disk, GROQ_API_KEY, TAVILY_API_KEY, vectorstore, retriever, mode, error,
                   input_question, grade_in, grade_scores, graded,
                   routed, tool_failed, not_grounded, result>>

\* The steps that do not start an execution: the retriever's lifecycle and
\* the steps of the graph.
Run ==
    \/ \E ok \in BOOLEAN : SetupVectorstore(ok)
    \/ \E ok \in BOOLEAN : LoadVectorstore(ok)
    \/ \E source \in Sources : RouteQuestion(source)
    \/ \E documents \in SeqsUpTo(Passages, MaxDocs) : Retrieve(documents)
    \/ \E ok \in BOOLEAN, web_results \in WebResults : WebSearch(ok, web_results)
    \/ \E scores \in [1..Len(Get(state, "documents", <<>>)) -> Verdicts] :
            GradeDocuments(scores)
    \/ DecideToGenerate
    \/ \E generation \in Generations : Generate(generation)
    \/ \E score \in Verdicts, answer_score \in Verdicts : GradeGeneration(score, answer_score)
    \/ TransformQuery

\* Executions started through AdaptiveRAG.query and AdaptiveRAG.query_simple.
Next ==
    \/ \E question \in Questions, m \in Modes : Query(question, m)
    \/ Run

Spec == Init /\ [][Next]_vars

\* Executions started through SimpleEvaluator.evaluate_response.
EvalNext ==
    \/ \E question \in Questions, m \in EvaluatorModes : Query(question, m)
    \/ Run

EvalSpec == Init /\ [][EvalNext]_vars

\* ------------------------------------------------ a second execution
\* The variables of the first execution and of the instance.
first == <<state, pc, GROQ_API_KEY, TAVILY_API_KEY, vectorstore, retriever, mode,
           error, input_question, executed, grade_in, grade_scores, graded,
           routed, tool_failed, not_grounded, key, value, result, on_disk>>

\* query_simple called while another execution is under way: app.invoke
\* builds a GraphState of its own from the inputs.
OtherQuery(question) ==
    /\ other.pc = "idle"
    /\ other' = IF gate("query_simple") = "ok"
                  THEN [other EXCEPT !.state = Merge(EmptyState,
                                                     inputs(question, "query_simple")),
                                     !.pc = "route_question",
                                     !.input_question = question]
                  ELSE [other EXCEPT !.pc = "error", !.input_question = question]
    /\ UNCHANGED first

\* Mutant of the second execution's node step: the node is handed the first
\* execution's state.
OtherNode_shared(node, update, nxt) ==
    /\ other' = [other EXCEPT !.state = Merge(state, update),
                              !.pc = nxt,
                              !.transforms = IF node = "transform_query"
                                               THEN @ + 1 ELSE @]
    /\ UNCHANGED first

\* A node of the second execution: its return value is merged into that
\* execution's own state.
OtherNode(node, update, nxt) ==
    /\ other' = [other EXCEPT !.state = Merge(@, update),
                              !.pc = nxt,
                              !.transforms = IF node = "transform_query"
                                               THEN @ + 1 ELSE @]
    /\ UNCHANGED first

\* A conditional edge of the second execution; reaching END, query_simple
\* returns the generation of the final state.
OtherEdge(nxt) ==
    /\ other' = [other EXCEPT !.pc = nxt,
                              !.result = IF nxt = "END"
                                           THEN query_result("query_simple",
                                                             EmptyState, other.state)
                                           ELSE @]
    /\ UNCHANGED first

OtherRouteQuestion(source) ==
    /\ other.pc = "route_question"
    /\ OtherEdge(StartEdges(route_question(source)))

OtherRetrieve(documents) ==
    /\ other.pc = "retrieve"
    /\ IF retriever
         THEN OtherNode("retrieve", retrieve(other.state, documents), RetrieveEdge)
         ELSE OtherEdge("error")

OtherWebSearch(ok, web_results) ==
    /\ other.pc = "web_search"
    /\ OtherNode("web_search", web_search(other.state, search(ok, web_results)), WebSearchEdge)

OtherGradeDocuments(scores) ==
    /\ other.pc = "grade_documents"
    /\ OtherNode("grade_documents", grade_documents(other.state, scores), "decide_to_generate")

OtherDecideToGenerate ==
    /\ other.pc = "decide_to_generate"
    /\ OtherEdge(GradeDocumentsEdges(decide_to_generate(other.state)))

OtherGenerate(generation) ==
    /\ other.pc = "generate"
    /\ OtherNode("generate", generate(other.state, generation), "grade_generation")

OtherGradeGeneration(score, answer_score) ==
    /\ other.pc = "grade_generation"
    /\ OtherEdge(GenerateEdges(grade_generation_v_documents_and_question(
                                   other.state, score, answer_score)))

OtherTransformQuery ==
    /\ other.pc = "transform_query"
    /\ OtherNode("transform_query", transform_query(other.state), TransformQueryEdge)

\* The steps of the second execution.
OtherRun ==
    \/ \E source \in Sources : OtherRouteQuestion(source)
    \/ \E documents \in SeqsUpTo({"p2"}, 1) : OtherRetrieve(documents)
    \/ \E ok \in BOOLEAN, web_results \in WebResults : OtherWebSearch(ok, web_results)
    \/ \E scores \in [1..Len(Get(other.state, "documents", <<>>)) -> {"yes", "no"}] :
            OtherGradeDocuments(scores)
    \/ OtherDecideToGenerate
    \/ \E generation \in {"a2"} : OtherGenerate(generation)
    \/ \E score \in {"yes", "no"}, answer_score \in {"yes", "no"} :
            OtherGradeGeneration(score, answer_score)
    \/ OtherTransformQuery

\* Two executions on one instance whose index was loaded, interleaved in any
\* order: the first through query, the second through query_simple.  The two
\* are given different questions, passages and generations, so that a value
\* of one execution showing up in the other is visible.
ConcNext ==
    \/ other.pc = "idle" /\ LoadVectorstore(TRUE)
    \/ \E question \in {<<"q1">>} : Query(question, "query")
    \/ \E source \in {"vectorstore", "web_search"} : RouteQuestion(source)
    \/ \E documents \in SeqsUpTo({"p1"}, 1) : Retrieve(documents)
    \/ \E web_results \in WebResults : WebSearch(TRUE, web_results)
    \/ \E scores \in [1..Len(Get(state, "documents", <<>>)) -> {"yes", "no"}] :
            GradeDocuments(scores)
    \/ DecideToGenerate
    \/ \E generation \in {"a1"} : Generate(generation)
    \/ \E score \in {"yes", "no"}, answer_score \in {"yes", "no"} :
            GradeGeneration(score, answer_score)
    \/ TransformQuery
    \/ \E question \in {<<"q2">>} : OtherQuery(question)
    \/ OtherRun

ConcSpec == Init /\ [][ConcNext]_vars

\* ------------------------------------------- the same answers given twice
\* The second execution takes the step the first has just taken, and is given
\* the answer the first was given: the router's label, the passages retrieved
\* or searched, the verdicts and the generation are read back from the first.
Replay ==
    \/ OtherQuery(input_question)
    \/ OtherRouteQuestion(routed)
    \/ OtherRetrieve(Get(state, "documents", <<>>))
    \/ \E web_results \in WebResults :
          /\ other.pc = "web_search"
          /\ state["documents"] = <<search(~tool_failed, web_results)>>
          /\ OtherWebSearch(~tool_failed, web_results)
    \/ OtherGradeDocuments(grade_scores)
    \/ OtherDecideToGenerate
    \/ OtherGenerate(Get(state, "generation", "a1"))
    \/ \E answer_score \in Verdicts :
          /\ other.pc = "grade_generation"
          /\ graded.answer \in {NotCalled, answer_score}
          /\ OtherGradeGeneration(graded.score, answer_score)
    \/ OtherTransformQuery

\* Two executions through query_simple in lock step: the first takes a step
\* when the second has caught up, then the second replays it.
TwinNext ==
    \/ other.pc = pc /\ \E question \in Questions : Query(question, "query_simple")
    \/ other.pc = pc /\ Run
    \/ other.pc # pc /\ Replay

TwinSpec == Init /\ [][TwinNext]_vars

\* ------------------------------------------- the retriever called directly
\* GroqDocumentRetriever.create_vectorstore called on the instance's retriever.
CreateVectorstore(ok) ==
    /\ pc = "idle"
    /\ SetIndex(create_vectorstore(index, ok))
    /\ error' = IF ok THEN "none" ELSE "Exception"
    /\ UNCHANGED <<other, state, pc, GROQ_API_KEY, TAVILY_API_KEY, mode,
                   input_question, executed, grade_in, grade_scores, graded,
                   routed, tool_failed, not_grounded, key, value, result>>

\* GroqDocumentRetriever.save_vectorstore called on the instance's retriever.
SaveVectorstore ==
    /\ pc = "idle"
    /\ SetIndex(save_vectorstore(index))
    /\ error' = "none"
    /\ UNCHANGED <<other, state, pc, GROQ_API_KEY, TAVILY_API_KEY, mode,
                   input_question, executed, grade_in, grade_scores, graded,
                   routed, tool_failed, not_grounded, key, value, result>>

\* The instance used with its retriever's methods called directly as well.
IndexNext ==
    \/ \E ok \in BOOLEAN : CreateVectorstore(ok)
    \/ SaveVectorstore
    \/ Next

IndexSpec == Init /\ [][IndexNext]_vars

\* The caller, once done with the index, calls query or query_simple, and the
\* graph keeps running the next node or branch predicate until END.
FairSpec ==
    Spec /\ WF_vars((\E question \in Questions, m \in Modes : Query(question, m))
                      \/ (pc # "idle" /\ Run))

\* ------------------------------------------------------------ observations
\* retry_count as every reader of the state obtains it: state.get("retry_count", 0).
RetryCount == Get(state, "retry_count", 0)

\* The fields of the state a claim compares across a step (absent reads as "absent").
Field(name) == Get(state, name, "absent")

\* The execution was started: the entry point's check passed and the inputs
\* were written.
Started == pc \notin {"idle"} /\ gate(mode) = "ok"

\* ------------------------------------------------------------------ claims
\* C1 (retry ceiling): whenever the generate branch is evaluated with
\* retry_count >= 3, a "yes" groundedness verdict and an adequacy verdict other
\* than "yes", the outcome is "useful" and the graph goes to END, never to
\* transform_query.
C1_RetryCeiling ==
    [][(/\ pc = "grade_generation"
        /\ RetryCount >= 3
        /\ graded'.score = "yes"
        /\ graded'.answer \notin {"yes", NotCalled})
       => (graded'.outcome = "useful" /\ pc' = "END")]_vars

C1_Witness ==
    /\ pc = "END"
    /\ graded.retry_count >= 3
    /\ graded.score = "yes"
    /\ graded.answer \in {"no", "unsure"}

\* C2 (retry monotonicity): every step of an execution leaves retry_count
\* unchanged, except a transform_query execution, which adds exactly 1; so it
\* never decreases.
C2_RetryMonotone ==
    [][IF pc = "transform_query"
         THEN RetryCount' = RetryCount + 1
         ELSE RetryCount' = RetryCount]_vars

C2_Witness ==
    /\ pc = "generate"
    /\ graded.outcome = "not supported"
    /\ executed["transform_query"] = 2
    /\ RetryCount = 2

\* C3 (routing exclusivity): once generate is due or has run, exactly one of
\* retrieve and web_search has executed, and exactly once.
C3_RoutingExclusive ==
    (pc = "generate" \/ executed["generate"] >= 1)
        => executed["retrieve"] + executed["web_search"] = 1

C3_Witness ==
    /\ pc = "END"
    /\ executed["web_search"] = 1
    /\ executed["retrieve"] = 0
    /\ executed["generate"] >= 2

\* C4 (not-grounded self-loop): whenever the generate branch is evaluated with a
\* groundedness verdict other than "yes", whatever retry_count is, the answer
\* grader is not called, the next node is generate, and the state is untouched;
\* generate itself leaves question, documents and retry_count as they were.
C4_NotGroundedLoop ==
    [][/\ (pc = "grade_generation" /\ graded'.score # "yes")
            => /\ pc' = "generate"
               /\ graded'.answer = NotCalled
               /\ graded'.outcome = "not supported"
               /\ state' = state
       /\ pc = "generate"
            => /\ Field("question")' = Field("question")
               /\ Field("documents")' = Field("documents")
               /\ Field("retry_count")' = Field("retry_count")]_vars

C4_Witness ==
    /\ pc = "generate"
    /\ graded.outcome = "not supported"
    /\ graded.retry_count >= 3
    /\ executed["generate"] >= 4

\* The generate node can run and leaves retry_count as it is.
GenerateAgain ==
    \E generation \in Generations : Generate(generation) /\ RetryCount' = RetryCount

\* The generate branch can answer "not supported" and hand the same state back
\* to generate.
NotSupportedLoop ==
    \E answer_score \in Verdicts :
        /\ GradeGeneration("no", answer_score)
        /\ pc' = "generate"
        /\ state' = state

\* C5 (latent non-termination): the engine never closes the generate ->
\* generate cycle: wherever generate is due it can run, and wherever its branch
\* is due a "no" groundedness verdict sends the same state (same retry_count)
\* back to generate, so an execution with that verdict after every generate
\* cycles forever and never reaches END.
C5_LoopNeverCloses ==
    /\ pc = "generate" => ENABLED GenerateAgain
    /\ pc = "grade_generation" => ENABLED NotSupportedLoop

C5_Witness ==
    /\ pc = "grade_generation"
    /\ executed["generate"] = MaxCount
    /\ graded.outcome = "not supported"
    /\ RetryCount = 0

\* What "eventually Done" would say; C5 says it fails.
EventuallyDone == <>(pc \in {"END", "error"})

\* Every verdict a grader has given so far is "yes".
AllAffirmative ==
    /\ \A i \in DOMAIN grade_scores : grade_scores[i] = "yes"
    /\ graded.score \in {NotCalled, "yes"}
    /\ graded.answer \in {NotCalled, "yes"}

\* The router's label was valid, the index was ready and the keys were set.
NoError == pc # "error"

\* The retriever handed grade_documents at least one passage.
PassagesReturned == pc = "grade_documents" => state["documents"] # <<>>

\* END after one generate and no transform_query.
DoneInOnePass ==
    /\ pc = "END"
    /\ executed["generate"] = 1
    /\ executed["transform_query"] = 0
    /\ RetryCount = 0

\* C6 (termination reachability): an execution in which no call fails, the
\* retriever returns passages and every grader verdict is "yes" reaches END,
\* after exactly one generate, no transform_query and with retry_count 0.
C6_TerminationReachable ==
    ([]AllAffirmative /\ []NoError /\ []PassagesReturned) => <>DoneInOnePass

C6_Witness ==
    /\ DoneInOnePass
    /\ AllAffirmative
    /\ executed["retrieve"] = 1
    /\ Len(grade_in) = 2
    /\ state["documents"] = grade_in

\* C7 (empty-evidence fallback): the branch after grade_documents goes to
\* transform_query when the filtered documents are empty and to generate when
\* they are not.
C7_EmptyEvidenceFallback ==
    [][pc = "decide_to_generate"
        => pc' = IF Len(state["documents"]) = 0 THEN "transform_query" ELSE "generate"]_vars

C7_Witness ==
    /\ pc = "transform_query"
    /\ executed["grade_documents"] = 1
    /\ executed["generate"] = 0
    /\ Len(grade_in) = 2
    /\ state["documents"] = <<>>

\* The positions of the passages grade_documents was told are relevant.
KeptPositions == {i \in DOMAIN grade_in : grade_scores[i] = "yes"}

\* The k-th kept position, counting from 1.
KeptPosition(k) ==
    CHOOSE i \in KeptPositions : Cardinality({j \in KeptPositions : j <= i}) = k

\* C8 (filtering preserves order): the documents grade_documents writes are the
\* passages of its input whose verdict is "yes", each once, in input order.
C8_FilterPreservesOrder ==
    pc = "decide_to_generate"
        => /\ Len(state["documents"]) = Cardinality(KeptPositions)
           /\ \A k \in 1..Len(state["documents"]) :
                  state["documents"][k] = grade_in[KeptPosition(k)]

C8_Witness ==
    /\ pc = "decide_to_generate"
    /\ grade_in = <<"p1", "p2">>
    /\ grade_scores = <<"yes", "yes">>
    /\ state["documents"] = <<"p1", "p2">>

\* n-fold wrapping of a question.
RECURSIVE WrapTimes(_, _)
WrapTimes(question, n) == IF n = 0 THEN question ELSE Wrap(WrapTimes(question, n - 1))

\* C9 as stated: after n transform_query executions the question is the
\* caller's question wrapped n times.
C9_QuestionWrapped ==
    Started /\ pc # "error"
        => state["question"] = WrapTimes(input_question, executed["transform_query"])

\* C9 (amended): transform_query computes the wrapped question and discards
\* it: the step leaves the question field as it was, so after any number of
\* transform_query executions the question is still the caller's, unwrapped.
C9_TransformKeepsQuestion ==
    [][pc = "transform_query"
        => /\ state'["question"] = state["question"]
           /\ state'["question"] # Wrap(state["question"])]_vars

C9_Witness ==
    /\ executed["transform_query"] = 3
    /\ state["question"] = input_question
    /\ state["question"] # WrapTimes(input_question, 3)

\* C10 (question immutability): in every state of a started execution the
\* question field is the caller's input string.
C10_QuestionImmutable ==
    Started => ("question" \in DOMAIN state /\ state["question"] = input_question)

C10_Witness ==
    /\ pc = "END"
    /\ executed["transform_query"] = 3
    /\ executed["retrieve"] = 1
    /\ state["question"] = input_question

\* No node has executed.
NothingExecuted == \A n \in NodeNames : executed[n] = 0

\* C11 (Done is terminal, reached only through "useful"): every step into END
\* is an evaluation of the generate branch whose outcome is "useful" (score
\* "yes" and either answer "yes" or retry_count >= 3), and no step leaves END.
C11_DoneOnlyThroughUseful ==
    [][/\ (pc # "END" /\ pc' = "END")
            => /\ pc = "grade_generation"
               /\ executed["generate"] >= 1
               /\ graded'.outcome = "useful"
               /\ graded'.score = "yes"
               /\ (graded'.answer = "yes" \/ graded'.retry_count >= 3)
       /\ pc # "END"]_vars

C11_Witness ==
    /\ pc = "END"
    /\ graded.outcome = "useful"
    /\ graded.answer = "yes"
    /\ graded.retry_count = 1
    /\ not_grounded >= 1

\* C12 (generation is set before it is used): the generate branch is evaluated
\* only after generate has run and written generation; at END generation is
\* set and the entry point returns it, never the "No answer generated" default.
C12_GenerationSetBeforeUse ==
    /\ pc = "grade_generation"
         => (executed["generate"] >= 1 /\ "generation" \in DOMAIN state)
    /\ pc = "END"
         => /\ "generation" \in DOMAIN state
            /\ result = state["generation"]
            /\ result \in Generations

C12_Witness ==
    /\ pc = "END"
    /\ mode = "query_simple"
    /\ executed["generate"] >= 2
    /\ result = "a2"

\* The empty-evidence transform ran: grade_documents kept nothing.
EmptyEvidence == executed["grade_documents"] = 1 /\ KeptPositions = {}

\* An execution in which every groundedness verdict was "yes" and every
\* adequacy verdict was other than "yes", now at END.
ForcedDone == pc = "END" /\ not_grounded = 0 /\ graded.answer # "yes"

\* C13 as stated: with every groundedness verdict "yes" and every adequacy
\* verdict "no", END is forced at the 4th generate, with retry_count 3.
C13_DoneAtFourthGenerate ==
    ForcedDone => (executed["generate"] = 4 /\ RetryCount = 3)

\* C13 (amended): in such an execution END is forced at the generate that runs
\* with retry_count 3, after three transform_query executions: the 4th generate
\* when the first generate ran with retry_count 0, the 3rd when the
\* empty-evidence transform after grade_documents had already spent one retry;
\* in between every inadequate generation is followed by transform_query.
C13_DoneAtRetryCeiling ==
    /\ ForcedDone
         => /\ RetryCount = 3
            /\ executed["transform_query"] = 3
            /\ executed["generate"] = IF EmptyEvidence THEN 3 ELSE 4
    /\ (not_grounded = 0 /\ pc \in {"generate", "grade_generation", "transform_query"})
         => /\ executed["transform_query"] <= 3
            /\ executed["transform_query"] = RetryCount
            /\ executed["generate"] + (IF pc = "transform_query" THEN 0 ELSE 1)
                 = RetryCount + (IF EmptyEvidence THEN 0 ELSE 1)
                     + (IF pc = "grade_generation" THEN 1 ELSE 0)

C13_Witness ==
    /\ ForcedDone
    /\ executed["generate"] = 4
    /\ executed["web_search"] = 1
    /\ RetryCount = 3

\* C14 (configuration gate): once a call that starts a graph execution has
\* been made with GROQ_API_KEY or TAVILY_API_KEY absent, it has been rejected
\* with the configuration error before the router or any node ran; with both
\* keys present the call is not rejected.
C14_ConfigurationGate ==
    /\ (pc # "idle" /\ validate # "ok")
         => /\ pc = "error"
            /\ error = "ValueError"
            /\ routed = "none"
            /\ NothingExecuted
    /\ (pc # "idle" /\ validate = "ok")
         => ~(pc = "error" /\ routed = "none")

\* C15 (routing contract violation is fatal): once the router has answered
\* outside {vectorstore, web_search}, the execution has ended in the routing
\* error, no node has executed or will, and nothing is returned.
C15_RoutingViolationFatal ==
    routed \notin {"none", "vectorstore", "web_search"}
        => /\ pc = "error"
           /\ error = "KeyError"
           /\ NothingExecuted
           /\ key = "none"
           /\ result = "none"

C15_Witness ==
    /\ routed = "other"
    /\ pc = "error"
    /\ error = "KeyError"

\* C16 (index not ready is fatal): a question routed to the vectorstore while
\* no index was built or loaded ends, after the retrieve attempt, in the
\* not-initialized error: retrieve is not retried and no node has executed.
C16_IndexNotReadyFatal ==
    (routed = "vectorstore" /\ ~retriever /\ pc # "retrieve")
        => /\ pc = "error"
           /\ error = "ValueError"
           /\ NothingExecuted
           /\ result = "none"

C16_Witness ==
    /\ routed = "vectorstore"
    /\ ~retriever
    /\ pc = "error"
    /\ error = "ValueError"

\* C17 (web-search failure degrades): after the search tool failed, web_search
\* has completed with the single placeholder passage as documents, the
\* execution goes on through generate without an error, and retry_count counts
\* the transform_query executions only (the failure and the "not supported"
\* loops add nothing).
C17_WebSearchFailureDegrades ==
    tool_failed
        => /\ executed["web_search"] = 1
           /\ state["documents"] = <<WebFailed>>
           /\ pc \in {"generate", "grade_generation", "transform_query", "END"}
           /\ error = "none"
           /\ RetryCount = executed["transform_query"]

C17_Witness ==
    /\ tool_failed
    /\ pc = "END"
    /\ not_grounded >= 2
    /\ graded.answer = "yes"
    /\ RetryCount = 0

\* Scenario B up to its first generate: retrieve, grade_documents keeping
\* nothing, transform_query, and generate due with retry_count 1 and no documents.
ScenarioB ==
    (EmptyEvidence /\ pc = "generate" /\ executed["generate"] = 0)
        => /\ executed["retrieve"] = 1
           /\ executed["web_search"] = 0
           /\ executed["transform_query"] = 1
           /\ RetryCount = 1
           /\ state["documents"] = <<>>

\* C18 (transform_query flows into generate): the node after transform_query
\* is always generate, and on the vectorstore route with every passage graded
\* irrelevant generate first runs after retrieve, grade_documents and one
\* transform_query, with retry_count 1 and empty documents.
C18_TransformFlowsIntoGenerate ==
    /\ []ScenarioB
    /\ [][pc = "transform_query" => pc' = "generate"]_vars

C18_Witness ==
    /\ pc = "END"
    /\ EmptyEvidence
    /\ Len(grade_in) = 2
    /\ executed["generate"] = 1
    /\ executed["transform_query"] = 1
    /\ RetryCount = 1
    /\ graded.answer = "yes"

\* The dict d agrees with the state st on every key it carries.
Snapshot(d, st) == DOMAIN d \subseteq DOMAIN st /\ \A k \in DOMAIN d : d[k] = st[k]

\* C19 (streaming events mirror execution): in streaming mode every node
\* execution, and nothing else, yields one event, named after the node that
\* just ran and carrying what it wrote; at END the last event is generate's
\* and query returns the generation it carries.
C19_EventsMirrorExecution ==
    /\ [][mode' = "query"
            => IF pc \in NodeNames /\ pc' # "error"
                 THEN key' = pc /\ Snapshot(value', state') /\ value' # EmptyState
                 ELSE UNCHANGED <<key, value>>]_vars
    /\ [](pc = "END" /\ mode = "query"
            => /\ key = "generate"
               /\ result = value["generation"]
               /\ result = state["generation"])

C19_Witness ==
    /\ pc = "END"
    /\ mode = "query"
    /\ key = "generate"
    /\ result = value["generation"]
    /\ executed["transform_query"] >= 1
    /\ not_grounded >= 1

\* What the second execution holds comes from its own inputs and its own
\* oracle answers only.
OtherAlone ==
    "question" \in DOMAIN other.state
        => /\ other.state["question"] = other.input_question
           /\ Get(other.state, "retry_count", 0) = other.transforms
           /\ \A i \in DOMAIN Get(other.state, "documents", <<>>) :
                  other.state["documents"][i] \in {"p2"} \cup WebResults \cup {WebFailed}
           /\ Get(other.state, "generation", "a2") = "a2"
           /\ other.pc = "END" => other.result = other.state["generation"]

\* The same of the first execution.
FirstAlone ==
    "question" \in DOMAIN state
        => /\ state["question"] = input_question
           /\ RetryCount = executed["transform_query"]
           /\ \A i \in DOMAIN Get(state, "documents", <<>>) :
                  state["documents"][i] \in {"p1"} \cup WebResults
           /\ Get(state, "generation", "a1") = "a1"
           /\ pc = "END" => result = state["generation"]

\* C20 (concurrent queries are isolated): with two executions on one instance
\* interleaved in any order, a step of one execution leaves the other's state
\* (question, documents, generation, retry_count), position and result
\* unchanged; every step of the first is a step it could take running alone;
\* and each execution's state, retry count and result come from its own
\* question and oracle answers.
C20_ConcurrentQueriesIsolated ==
    /\ [][/\ other' # other => UNCHANGED first
          /\ first' # first => other' = other /\ Next]_vars
    /\ [](FirstAlone /\ OtherAlone)

C20_Witness ==
    /\ pc = "grade_generation"
    /\ RetryCount = 1
    /\ state["documents"] = <<"p1">>
    /\ other.pc = "transform_query"
    /\ other.transforms = 2
    /\ other.state["documents"] = <<>>
    /\ other.state["generation"] = "a2"

\* A verdict outside {"yes", "no"} has been returned by the relevance grader
\* in the last grade_documents, or by the hallucination or the answer grader in
\* the last evaluation of the generate branch.
VerdictOutsideDomain ==
    \/ \E i \in DOMAIN grade_scores : grade_scores[i] \notin {"yes", "no"}
    \/ graded.score \notin {"yes", "no", NotCalled}
    \/ graded.answer \notin {"yes", "no", NotCalled}

\* C21 (grader verdict domain is enforced): once a grader has returned a
\* verdict outside {"yes", "no"}, the execution has ended in an error; the
\* verdict was not taken as one of the two branch outcomes.
C21_VerdictDomainEnforced ==
    VerdictOutsideDomain => pc = "error"

\* C22 (under-budget reformulation): an evaluation of the generate branch with
\* a "yes" groundedness verdict, an adequacy verdict other than "yes" and
\* retry_count < 3 gives "not useful" and goes to transform_query, whose step
\* leads back to generate with retry_count one higher than at the evaluation.
C22_UnderBudgetReformulation ==
    /\ [][(/\ pc = "grade_generation"
           /\ pc' # pc
           /\ graded'.score = "yes"
           /\ graded'.answer # "yes"
           /\ RetryCount < 3)
            => /\ graded'.outcome = "not useful"
               /\ graded'.retry_count = RetryCount
               /\ pc' = "transform_query"
               /\ UNCHANGED state]_vars
    /\ [][(pc = "transform_query" /\ graded.outcome = "not useful")
            => /\ pc' = "generate"
               /\ RetryCount' = graded.retry_count + 1]_vars

C22_Witness ==
    /\ pc = "generate"
    /\ graded.outcome = "not useful"
    /\ graded.answer = "unsure"
    /\ graded.retry_count = 2
    /\ RetryCount = 3

\* C23 (grading order in the generate branch): every evaluation has a
\* groundedness verdict; the answer grader has been called if and only if that
\* verdict is "yes"; and a "yes" from both gives "useful" and END whatever
\* retry_count is.
C23_GradingOrder ==
    /\ graded.outcome # "none" => graded.score # NotCalled
    /\ graded.outcome # "none" => (graded.answer # NotCalled <=> graded.score = "yes")
    /\ (graded.score = "yes" /\ graded.answer = "yes")
         => graded.outcome = "useful" /\ pc = "END"

C23_Witness ==
    /\ pc = "END"
    /\ graded.score = "yes"
    /\ graded.answer = "yes"
    /\ graded.retry_count = 2
    /\ not_grounded >= 1

\* A step leaves the field as it was: absent, or set to the same value.
Kept(name) ==
    /\ name \in DOMAIN state' <=> name \in DOMAIN state
    /\ name \in DOMAIN state => state'[name] = state[name]

\* C24 (frame conditions of the nodes): retrieve, web_search and
\* grade_documents change no field but documents; generate changes no field
\* but generation; transform_query leaves documents and generation as they
\* were; and documents changes in a step of retrieve, web_search or
\* grade_documents only.
C24_NodeFrames ==
    [][/\ pc \in {"retrieve", "web_search", "grade_documents"}
            => /\ Kept("question")
               /\ Kept("generation")
               /\ Kept("retry_count")
       /\ pc = "generate"
            => /\ Kept("question")
               /\ Kept("documents")
               /\ Kept("retry_count")
       /\ pc = "transform_query"
            => /\ Kept("documents")
               /\ Kept("generation")
       /\ ~Kept("documents")
            => pc \in {"retrieve", "web_search", "grade_documents"}]_vars

C24_Witness ==
    /\ pc = "END"
    /\ executed["retrieve"] = 1
    /\ executed["grade_documents"] = 1
    /\ executed["generate"] = 2
    /\ executed["transform_query"] = 1
    /\ state["documents"] = <<"p2">>
    /\ grade_in = <<"p1", "p2">>
    /\ RetryCount = 1

\* C25 (strictly sequential execution): a step runs at most one node, the one
\* the execution was positioned at; a branch predicate runs no node, writes
\* nothing and selects one successor from its path map; a node has one successor.
C25_StrictlySequential ==
    [][/\ \A n, m \in NodeNames :
            (executed'[n] # executed[n] /\ executed'[m] # executed[m]) => n = m
       /\ \A n \in NodeNames : executed'[n] # executed[n] => pc = n
       /\ pc \in {"route_question", "decide_to_generate", "grade_generation"}
            => executed' = executed /\ state' = state
       /\ pc = "route_question" => pc' \in {"retrieve", "web_search", "error"}
       /\ pc = "decide_to_generate" => pc' \in {"transform_query", "generate"}
       /\ pc = "grade_generation" => pc' \in {"generate", "transform_query", "END"}
       /\ pc = "retrieve" => pc' \in {"grade_documents", "error"}
       /\ pc = "grade_documents" => pc' = "decide_to_generate"
       /\ pc \in {"web_search", "transform_query"} => pc' = "generate"
       /\ pc = "generate" => pc' = "grade_generation"]_vars

C25_Witness ==
    /\ pc = "END"
    /\ executed["web_search"] = 1
    /\ executed["generate"] = 3
    /\ executed["transform_query"] = 1
    /\ not_grounded = 1

\* C26 (bounded retry counter): retry_count, read as every reader reads it,
\* stays within 0..3, and transform_query has run at most 3 times, the
\* empty-evidence transform and the "not useful" transforms counted together.
C26_RetryCounterBounded ==
    /\ RetryCount \in 0..3
    /\ executed["transform_query"] <= 3
    /\ executed["transform_query"] = RetryCount

C26_Witness ==
    /\ EmptyEvidence
    /\ pc = "END"
    /\ RetryCount = 3
    /\ executed["transform_query"] = 3
    /\ graded.outcome = "useful"
    /\ graded.answer = "no"

\* The last groundedness verdict, if any, is "yes".
Grounded == graded.score \in {NotCalled, "yes"}

\* generate has run at most once per groundedness verdict other than "yes"
\* and once per retry, plus once (the counters being below saturation).
GenerateBudget ==
    executed["generate"] < MaxCount
        => /\ executed["generate"] <= not_grounded + RetryCount + 1
           /\ executed["generate"] <= not_grounded + 4

C28_EvidenceFixed ==
    /\ [](/\ executed["retrieve"] <= 1
          /\ executed["web_search"] <= 1
          /\ executed["grade_documents"] <= 1
          /\ (EmptyEvidence /\ executed["generate"] >= 1) => state["documents"] = <<>>)
    /\ [][(pc = "generate" \/ executed["generate"] >= 1)
            => /\ Kept("documents")
               /\ executed'["retrieve"] = executed["retrieve"]
               /\ executed'["web_search"] = executed["web_search"]
               /\ executed'["grade_documents"] = executed["grade_documents"]
               /\ pc' \notin {"retrieve", "web_search", "grade_documents"}]_vars

C28_Witness ==
    /\ EmptyEvidence
    /\ pc = "END"
    /\ Len(grade_in) = 2
    /\ executed["generate"] = 3
    /\ executed["transform_query"] = 2
    /\ not_grounded = 1
    /\ state["documents"] = <<>>

\* The state as query would hold it: retry_count set, 0 where the other
\* entry points leave it out.
WithRetryCount(st) == Merge([retry_count |-> 0], st)

\* The node or branch due gives the same label, and writes the same values,
\* on the state as it is and on the state with retry_count set.
StepAgrees ==
    /\ pc = "retrieve"
         => \A documents \in SeqsUpTo(Passages, MaxDocs) :
              WithRetryCount(Merge(state, retrieve(state, documents)))
                = Merge(WithRetryCount(state), retrieve(WithRetryCount(state), documents))
    /\ pc = "web_search"
         => \A doc \in WebResults \cup {WebFailed} :
              WithRetryCount(Merge(state, web_search(state, doc)))
                = Merge(WithRetryCount(state), web_search(WithRetryCount(state), doc))
    /\ pc = "grade_documents"
         => \A scores \in [1..Len(state["documents"]) -> Verdicts] :
              WithRetryCount(Merge(state, grade_documents(state, scores)))
                = Merge(WithRetryCount(state), grade_documents(WithRetryCount(state), scores))
    /\ pc = "decide_to_generate"
         => decide_to_generate(state) = decide_to_generate(WithRetryCount(state))
    /\ pc = "generate"
         => \A generation \in Generations :
              WithRetryCount(Merge(state, generate(state, generation)))
                = Merge(WithRetryCount(state), generate(WithRetryCount(state), generation))
    /\ pc = "grade_generation"
         => \A score \in Verdicts, answer_score \in Verdicts :
              grade_generation_v_documents_and_question(state, score, answer_score)
                = grade_generation_v_documents_and_question(
                      WithRetryCount(state), score, answer_score)
    /\ pc = "transform_query"
         => WithRetryCount(Merge(state, transform_query(state)))
              = Merge(WithRetryCount(state), transform_query(WithRetryCount(state)))

\* C29 (invocation modes agree): the inputs of query_simple and of the
\* evaluator are those of query but for retry_count, which every reader takes
\* as 0 when absent; from there each node and branch does the same on a state
\* without retry_count as on the state with it, so the node sequence and the
\* retry_count read are the same; and at END each entry point returns the
\* generation of the final state.
C29_ModesAgree ==
    /\ \A question \in Questions :
          /\ WithRetryCount(inputs(question, "query_simple")) = inputs(question, "query")
          /\ inputs(question, "evaluate") = inputs(question, "query_simple")
    /\ Started => RetryCount = WithRetryCount(state)["retry_count"]
    /\ Started => StepAgrees
    /\ pc = "END"
         => /\ result = state["generation"]
            /\ query_result("query_simple", value, state) = state["generation"]
            /\ query_result("evaluate", value, state) = state["generation"]

C29_Witness ==
    /\ mode = "query_simple"
    /\ pc = "grade_generation"
    /\ "retry_count" \notin DOMAIN state
    /\ not_grounded >= 1
    /\ executed["generate"] = 2

\* C30 (retriever index lifecycle): the retriever becomes ready only in a
\* create or load call that raised nothing, and retrieve has succeeded only
\* on a ready retriever; a load that raises FileNotFoundError leaves the
\* retriever and the files as they were, and retrieve on a retriever still not
\* ready ends in the not-initialized error; save_vectorstore with no
\* vectorstore writes nothing, and with one it writes the files.
C30_IndexLifecycle ==
    /\ [](/\ executed["retrieve"] >= 1 => retriever
          /\ retriever => vectorstore
          /\ ~vectorstore => save_vectorstore(index) = index
          /\ vectorstore => save_vectorstore(index).on_disk)
    /\ [][/\ (~retriever /\ retriever')
               => pc = "idle" /\ error' = "none" /\ vectorstore'
          /\ (pc = "idle" /\ error' = "FileNotFoundError")
               => UNCHANGED <<vectorstore, retriever, on_disk>>
          /\ (pc = "retrieve" /\ ~retriever)
               => pc' = "error" /\ error' = "ValueError" /\ UNCHANGED executed
          /\ (~on_disk /\ on_disk') => vectorstore']_vars

\* A load has just failed on a retriever that was never initialised.
C30_Witness ==
    /\ pc = "idle"
    /\ error = "FileNotFoundError"
    /\ ~retriever
    /\ ~on_disk

\* The second execution is where the first is, in the same state.
InStep ==
    /\ other.pc = pc
    /\ other.state = state
    /\ other.input_question = input_question
    /\ other.result = result
    /\ other.transforms = executed["transform_query"]

====
